---- MODULE Spec2Model ----
(***************************************************************************)
(* Model of dashboard.py: get_data() (one HTTP request to Open-Meteo, the  *)
(* parallel 'hourly' arrays aligned in a DataFrame, each row tagged         *)
(* Historical or Forecast against "now"), the module-level df = get_data() *)
(* and create_figure(df).                                                   *)
(*                                                                          *)
(* Values.  A JSON number n is Num(n) (rainfall in tenths of a millimetre, *)
(* temperature in tenths of a degree), JSON null is Null, the float NaN    *)
(* pandas stores for a null is NaN.  A time string is the sequence of its  *)
(* numeric fields: <<d>> is the date-only form "YYYY-MM-DD" of day d,      *)
(* <<d, h>> is "YYYY-MM-DDTHH:00"; any other sequence is unparseable.  A   *)
(* Timestamp is the number of hours since day 0, 00:00.                    *)
(***************************************************************************)
EXTENDS Integers, Sequences, FiniteSets

VARIABLES pc, requests, response, exc, now, df, fig

vars == <<pc, requests, response, exc, now, df, fig>>

----------------------------------------------------------------------------
(* Bounds of the model *)

MaxLen == 2

----------------------------------------------------------------------------
(* Values *)

Null == [type |-> "null"]

NaN == [type |-> "NaN"]

Num(n) == [type |-> "number", value |-> n]

None == [type |-> "None"]

SeqsUpTo(S, n) == UNION {[1..k -> S] : k \in 0..n}

(* Inputs the environment can supply *)

TimeStrings == {<<0>>, <<1>>, <<1, 0>>, <<>>}

TemperatureValues == {Null, Num(281)}

RainValues == {Null, Num(0), Num(52), Num(-1)}

NowValues == {0, 24, 25}

HourlyBlocks ==
  [time : SeqsUpTo(TimeStrings, MaxLen),
   temperature_2m : SeqsUpTo(TemperatureValues, MaxLen),
   rain : SeqsUpTo(RainValues, MaxLen)]

(* response bodies: a JSON object with an 'hourly' block, a JSON object   *)
(* with only an error message, or a body that is not JSON at all          *)
JsonBodies ==
  {[hourly |-> h] : h \in HourlyBlocks} \cup {[message |-> "rate limited"]}

Bodies == JsonBodies \cup {[raw |-> "<html>"]}

Responses == [status_code : {200, 500}, body : Bodies]

----------------------------------------------------------------------------
(* pandas values *)

(* pd.DataFrame(): no columns, no rows *)
EmptyDataFrame == [columns |-> <<>>, rows |-> <<>>]

(* DataFrame.empty: any axis has length 0 *)
Empty(dataframe) == Len(dataframe.columns) = 0 \/ Len(dataframe.rows) = 0

Returned(v) == [raised |-> FALSE, exc |-> "", value |-> v]

Raised(e) == [raised |-> TRUE, exc |-> e, value |-> None]

(* response.json() *)
Json(resp) ==
  IF "raw" \in DOMAIN resp.body THEN Raised("JSONDecodeError")
  ELSE Returned(resp.body)

(* data['hourly'] *)
GetHourly(data) ==
  IF "hourly" \in DOMAIN data THEN Returned(data.hourly)
  ELSE Raised("KeyError")

(* parsing one time string *)
Parseable(s) == Len(s) \in {1, 2}

ParseTime(s) == IF Len(s) = 1 THEN s[1] * 24 ELSE s[1] * 24 + s[2]

(* pd.to_datetime(list) *)
ToDatetime(times) ==
  IF \A i \in 1..Len(times) : Parseable(times[i])
  THEN Returned([i \in 1..Len(times) |-> ParseTime(times[i])])
  ELSE Raised("DateParseError")

(* a list of JSON values as a float column: None becomes NaN *)
ToFloat(v) == IF v = Null THEN NaN ELSE v

(* the two value columns filled from each other's array *)
NewDataFrame_SwappedColumns(dates, temperature, rain) ==
  IF Len(dates) = Len(temperature) /\ Len(dates) = Len(rain)
  THEN Returned([columns |-> <<"Date", "Male_Temperature", "Male_Rainfall">>,
                 rows |-> [i \in 1..Len(dates) |->
                             [Date |-> dates[i],
                              Male_Temperature |-> ToFloat(rain[i]),
                              Male_Rainfall |-> ToFloat(temperature[i])]]])
  ELSE Raised("ValueError")

(* pd.DataFrame({'Date': ..., 'Male_Temperature': ..., 'Male_Rainfall': ...}) *)
NewDataFrame(dates, temperature, rain) ==
  IF Len(dates) = Len(temperature) /\ Len(dates) = Len(rain)
  THEN Returned([columns |-> <<"Date", "Male_Temperature", "Male_Rainfall">>,
                 rows |-> [i \in 1..Len(dates) |->
                             [Date |-> dates[i],
                              Male_Temperature |-> ToFloat(temperature[i]),
                              Male_Rainfall |-> ToFloat(rain[i])]]])
  ELSE Raised("ValueError")

(* the boundary row counted as history: <= for < *)
Tag_Inclusive(x, t) == IF x <= t THEN "Historical" ELSE "Forecast"

(* lambda x: 'Historical' if x < now else 'Forecast' *)
Tag(x, t) == IF x < t THEN "Historical" ELSE "Forecast"

(* df['Type'] = df['Date'].apply(...) *)
AddType(frame, t) ==
  [columns |-> Append(frame.columns, "Type"),
   rows |-> [i \in 1..Len(frame.rows) |->
               [Date |-> frame.rows[i].Date,
                Male_Temperature |-> frame.rows[i].Male_Temperature,
                Male_Rainfall |-> frame.rows[i].Male_Rainfall,
                Type |-> Tag(frame.rows[i].Date, t)]]]

(* lines 26-35: the response decoded and aligned in a DataFrame *)
BuildFrame(resp) ==
  LET data == Json(resp) IN
  IF data.raised THEN data ELSE
  LET hourly_data == GetHourly(data.value) IN
  IF hourly_data.raised THEN hourly_data ELSE
  LET dates == ToDatetime(hourly_data.value.time) IN
  IF dates.raised THEN dates ELSE
  NewDataFrame(dates.value, hourly_data.value.temperature_2m,
               hourly_data.value.rain)

----------------------------------------------------------------------------
(* create_figure *)

ForecastRows(dataframe) ==
  LET IsForecast(r) == r.Type = "Forecast" IN SelectSeq(dataframe.rows, IsForecast)

Column(dataframe, c) ==
  [i \in 1..Len(dataframe.rows) |->
     CASE c = "Date" -> dataframe.rows[i].Date
       [] c = "Male_Temperature" -> dataframe.rows[i].Male_Temperature
       [] c = "Male_Rainfall" -> dataframe.rows[i].Male_Rainfall]

ErrorTitle == "Error loading data. Check internet connection."

ChartTitle == "Male' Weather: Last 30 Days + 7 Day Forecast"

(* the chart built without the test of dataframe.empty *)
create_figure_NoEmptyCheck(dataframe) ==
  LET forecast_df == ForecastRows(dataframe) IN
  [title |-> ChartTitle,
   traces |-> <<[kind |-> "Bar", x |-> Column(dataframe, "Date"),
                 y |-> Column(dataframe, "Male_Rainfall")],
                [kind |-> "Scatter", x |-> Column(dataframe, "Date"),
                 y |-> Column(dataframe, "Male_Temperature")]>>,
   vlines |-> IF Len(forecast_df) > 0 THEN <<forecast_df[1].Date>> ELSE <<>>,
   annotations |-> IF Len(forecast_df) > 0
                   THEN <<[x |-> forecast_df[1].Date, text |-> "Forecast Start"]>>
                   ELSE <<>>]

create_figure(dataframe) ==
  IF Empty(dataframe)
  THEN [title |-> ErrorTitle, traces |-> <<>>, vlines |-> <<>>, annotations |-> <<>>]
  ELSE LET forecast_df == ForecastRows(dataframe) IN
       [title |-> ChartTitle,
        traces |-> <<[kind |-> "Bar", x |-> Column(dataframe, "Date"),
                      y |-> Column(dataframe, "Male_Rainfall")],
                     [kind |-> "Scatter", x |-> Column(dataframe, "Date"),
                      y |-> Column(dataframe, "Male_Temperature")]>>,
        vlines |-> IF Len(forecast_df) > 0 THEN <<forecast_df[1].Date>> ELSE <<>>,
        annotations |-> IF Len(forecast_df) > 0
                        THEN <<[x |-> forecast_df[1].Date, text |-> "Forecast Start"]>>
                        ELSE <<>>]

----------------------------------------------------------------------------
(* The program *)

Init ==
  /\ pc = "get_data"
  /\ requests = 0
  /\ response = None
  /\ exc = ""
  /\ now = None
  /\ df = None
  /\ fig = None

(* requests.get(url) returns a response *)
RequestReturns ==
  /\ pc = "get_data"
  /\ \E r \in Responses : response' = r
  /\ requests' = requests + 1
  /\ pc' = "try"
  /\ UNCHANGED <<exc, now, df, fig>>

(* requests.get(url) raises *)
RequestRaises ==
  /\ pc = "get_data"
  /\ requests' = requests + 1
  /\ exc' = "ConnectionError"
  /\ pc' = "except"
  /\ UNCHANGED <<response, now, df, fig>>

(* lines 26-42 run to the return; the module-level df receives the result *)
TryReturns ==
  /\ pc = "try"
  /\ LET frame == BuildFrame(response) IN
       /\ ~frame.raised
       /\ \E t \in NowValues :
            /\ now' = t
            /\ df' = AddType(frame.value, t)
  /\ pc' = "loaded"
  /\ UNCHANGED <<requests, response, exc, fig>>

(* an exception is raised in lines 26-35 *)
TryRaises ==
  /\ pc = "try"
  /\ LET frame == BuildFrame(response) IN
       /\ frame.raised
       /\ exc' = frame.exc
  /\ pc' = "except"
  /\ UNCHANGED <<requests, response, now, df, fig>>

(* the handler asks again instead of returning *)
Except_Retry ==
  /\ pc = "except"
  /\ pc' = "get_data"
  /\ exc' = ""
  /\ UNCHANGED <<requests, response, now, df, fig>>

(* except Exception: return pd.DataFrame() *)
Except ==
  /\ pc = "except"
  /\ df' = EmptyDataFrame
  /\ pc' = "loaded"
  /\ UNCHANGED <<requests, response, exc, now, fig>>

(* dcc.Graph(figure=create_figure(df)) *)
CreateFigure ==
  /\ pc = "loaded"
  /\ fig' = create_figure(df)
  /\ pc' = "rendered"
  /\ UNCHANGED <<requests, response, exc, now, df>>

Next ==
  \/ RequestReturns
  \/ RequestRaises
  \/ TryReturns
  \/ TryRaises
  \/ Except
  \/ CreateFigure

Spec == Init /\ [][Next]_vars

----------------------------------------------------------------------------
(* Vocabulary of the properties *)

(* get_data has returned and the module-level df holds its result *)
Loaded == pc \in {"loaded", "rendered"}

(* get_data returned from line 42, no exception was caught *)
ReturnedTable == Loaded /\ exc = ""

(* the response carried a JSON object with an 'hourly' block *)
HasHourly ==
  /\ response # None
  /\ "hourly" \in DOMAIN response.body

Hourly == response.body.hourly

Aligned(h) ==
  /\ Len(h.time) = Len(h.temperature_2m)
  /\ Len(h.time) = Len(h.rain)

AllParseable(h) == \A i \in 1..Len(h.time) : Len(h.time[i]) \in {1, 2}

(* hours since day 0 of a parseable time string, the hour of a date-only  *)
(* string being 0                                                          *)
Hours(s) == 24 * s[1] + (IF Len(s) = 2 THEN s[2] ELSE 0)

(* the typed error values of the specification's taxonomy *)
ErrorValue(kind) == [error |-> kind]

ApiError(message) == [error |-> "ApiError", message |-> message]

IsErrorValue(v) == "error" \in DOMAIN v

----------------------------------------------------------------------------
(* C1: in the table get_data returns, for every row and every "now", the   *)
(* row is tagged Historical if and only if its timestamp is strictly less  *)
(* than "now", and Forecast otherwise; a row whose timestamp equals "now"  *)
(* is tagged Forecast.                                                     *)
C1_Classification ==
  ReturnedTable =>
    \A i \in 1..Len(df.rows) :
      /\ df.rows[i].Type \in {"Historical", "Forecast"}
      /\ df.rows[i].Type = "Historical" <=> df.rows[i].Date < now
      /\ df.rows[i].Date = now => df.rows[i].Type = "Forecast"

(* a table with one row before "now" and one row exactly at "now" *)
C1_Witness ==
  /\ ReturnedTable
  /\ \E i, j \in 1..Len(df.rows) :
       /\ df.rows[i].Date < now /\ df.rows[i].Type = "Historical"
       /\ df.rows[j].Date = now /\ df.rows[j].Type = "Forecast"

(* C2: when the time, temperature and rainfall arrays do not all have the  *)
(* same length, the outcome is the distinct error MisalignedArrays (never  *)
(* a truncated table, and distinguishable from every other failure).       *)
C2_MisalignedArrays ==
  (Loaded /\ HasHourly /\ ~Aligned(Hourly)) =>
    df = ErrorValue("MisalignedArrays")

(* C3: for every valid payload (aligned, parseable times, any order,       *)
(* repeated times allowed) the returned table is sorted ascending by       *)
(* timestamp and holds no two rows with the same timestamp.                *)
C3_SortedUnique ==
  (ReturnedTable /\ HasHourly) =>
    \A i, j \in 1..Len(df.rows) : i < j => df.rows[i].Date < df.rows[j].Date

(* C4: any failure of the fetch (transport failure, non-success response,  *)
(* response without the 'hourly' block) ends in an error value; no empty   *)
(* or placeholder table is substituted and handed to the renderer.         *)
FetchFailed ==
  \/ exc = "ConnectionError"
  \/ response # None /\ response.status_code # 200
  \/ response # None /\ "hourly" \notin DOMAIN response.body

C4_FetchErrorIsValue ==
  (Loaded /\ FetchFailed) => IsErrorValue(df)

(* C5: in the returned table rainfall is never negative and is 0 where the *)
(* source entry is null, and every index whose temperature is null is      *)
(* absent from the table (one row less per such index, no null or sentinel *)
(* temperature kept).                                                      *)
C5_ZeroFillAndDrop ==
  (ReturnedTable /\ HasHourly) =>
    /\ \A i \in 1..Len(df.rows) :
         /\ df.rows[i].Male_Rainfall # NaN
         /\ df.rows[i].Male_Rainfall.value >= 0
         /\ df.rows[i].Male_Temperature # NaN
    /\ Len(df.rows) =
         Cardinality({i \in 1..Len(Hourly.temperature_2m) :
                        Hourly.temperature_2m[i] # Null})

(* C6: a payload whose time array is empty, or whose rows all miss the     *)
(* temperature, gives the distinct error EmptySeries, never an ordinary    *)
(* empty table.                                                            *)
C6_EmptySeries ==
  (ReturnedTable /\ HasHourly
     /\ \A i \in 1..Len(Hourly.temperature_2m) : Hourly.temperature_2m[i] = Null) =>
    df = ErrorValue("EmptySeries")

(* C7: a response with a non-success status code ends in ApiError carrying *)
(* the API's message when the body has one; the status code is examined    *)
(* before the body is used as a payload.                                   *)
C7_ApiError ==
  (Loaded /\ response # None /\ response.status_code # 200) =>
    /\ IsErrorValue(df)
    /\ df.error = "ApiError"
    /\ "message" \in DOMAIN response.body => df = ApiError(response.body.message)

(* C8: each invocation of get_data performs exactly one network request on *)
(* every path: none before the call of requests.get, one after it, and no  *)
(* second one after a failed or malformed response.                        *)
C8_OneRequest ==
  /\ pc \in {"get_data", "try", "except", "loaded", "rendered"}
  /\ pc = "get_data" => requests = 0
  /\ pc # "get_data" => requests = 1

(* a run that failed on a response without 'hourly' and went on to the end *)
C8_Witness ==
  /\ pc = "rendered"
  /\ exc = "KeyError"
  /\ requests = 1

(* C9: a payload of N index-aligned entries with parseable times and no    *)
(* missing temperature yields exactly N rows, row i holding the time,      *)
(* temperature and rainfall of input index i (a null rainfall held as      *)
(* NaN); so the rows are in input order.                                   *)
C9_RowPerIndex ==
  (Loaded /\ HasHourly /\ Aligned(Hourly) /\ AllParseable(Hourly)
     /\ \A i \in 1..Len(Hourly.temperature_2m) : Hourly.temperature_2m[i] # Null) =>
    /\ exc = ""
    /\ Len(df.rows) = Len(Hourly.time)
    /\ \A i \in 1..Len(Hourly.time) :
         /\ df.rows[i].Date = Hours(Hourly.time[i])
         /\ df.rows[i].Male_Temperature = Hourly.temperature_2m[i]
         /\ Hourly.rain[i] # Null => df.rows[i].Male_Rainfall = Hourly.rain[i]
         /\ Hourly.rain[i] = Null => df.rows[i].Male_Rainfall = NaN

(* two entries sorted by time, with different rainfall, both kept in order *)
C9_Witness ==
  /\ Loaded /\ HasHourly /\ exc = ""
  /\ Hourly.time = <<(<<0>>), (<<1>>)>>
  /\ Hourly.temperature_2m = <<Num(281), Num(281)>>
  /\ Hourly.rain = <<Num(0), Num(52)>>
  /\ Len(df.rows) = 2
  /\ df.rows[1].Date < df.rows[2].Date

(* C10: get_data never propagates an exception: after every failure in the *)
(* request, the JSON decoding, the 'hourly' lookup or the table            *)
(* construction it returns an empty table, and create_figure of an empty   *)
(* table is the "Error loading data" figure with no trace and no forecast  *)
(* marker, for a failure and for an empty series alike.                    *)
C10_FailuresCollapse ==
  /\ pc \in {"get_data", "try", "except", "loaded", "rendered"}
  /\ (Loaded /\ exc # "") => df = EmptyDataFrame
  /\ (pc = "rendered" /\ (exc # "" \/ Len(df.rows) = 0)) =>
       /\ fig.title = ErrorTitle
       /\ Len(fig.traces) = 0
       /\ Len(fig.vlines) = 0
       /\ Len(fig.annotations) = 0

(* misaligned arrays rendered as the error figure *)
C10_Witness ==
  /\ pc = "rendered"
  /\ exc = "ValueError"
  /\ df = EmptyDataFrame
  /\ fig.title = ErrorTitle

====
